---- MODULE Spec2Model ----
(***************************************************************************)
(* State-machine model of the stripe-pay service: the status query         *)
(* (GetPaymentStatus), the Stripe webhook, the front-end status update,    *)
(* the status-change poll, the background goroutines they start, and the   *)
(* payment creation flow with its idempotency key.                         *)
(*                                                                         *)
(* The status half follows one payment (internal id "id", PaymentIntent    *)
(* "pi") of one user through the database row, the Redis entries and the   *)
(* provider.  Each HTTP handler is one action for its synchronous part;    *)
(* every `go func()` it starts is a task that runs later, in any order.    *)
(* The creation half follows a few concurrent creation requests of two     *)
(* users, the payments that succeed, the price configuration and the       *)
(* per-user aggregate query.  Beside the two halves stand the middleware   *)
(* (rate limiter, administrator authentication) and the shutdown manager.  *)
(*                                                                         *)
(* Specifications:                                                         *)
(*   SpecStatus   queries, webhooks, front-end updates and their           *)
(*                goroutines on one payment                                *)
(*   SpecWebhook  the provider and its notifications alone                 *)
(*   SpecPoll     queries, revalidation and status-change polls            *)
(*   SpecQuery    queries and their goroutines, database read errors       *)
(*   SpecCreate   concurrent creation requests                             *)
(*   SpecUser     creation requests one at a time, payments succeeding     *)
(*                and ageing                                               *)
(*   SpecAggregate  creation without database faults, payments succeeding, *)
(*                a price change and the aggregate query                   *)
(*   SpecClassify the status classifier applied to status strings          *)
(*   SpecRace     queries and webhooks with a revalidation and one more    *)
(*                goroutine in flight, Redis and database up               *)
(*   SpecConverge queries, webhooks and their goroutines under weak        *)
(*                fairness                                                 *)
(*   SpecLimit    concurrent rate-limit checks of one key                  *)
(*   SpecAuth     requests to an administrator endpoint                    *)
(*   SpecShutdown the shutdown signal and what follows, under weak         *)
(*                fairness                                                 *)
(* Unless said otherwise each runs the service with and without Redis,     *)
(* with and without the database.                                          *)
(***************************************************************************)
EXTENDS Integers, FiniteSets, Sequences, TLC

VARIABLES
    cacheUp,          \* cache.IsAvailable(): the Redis client is not nil
    dbUp,             \* db.DB != nil
    taskCap,          \* how many goroutines may be in flight when a handler starts more
    stripeSt,         \* the provider's live status of the PaymentIntent
    events,           \* webhook events the provider has emitted for it
    dbStatus,         \* payment_history.status of the row, or None (no row)
    upiCount,         \* user_payment_info.total_payment_count of the user
    cPayment,         \* Redis payment:{payment_id}
    cPaymentRef,      \* Redis payment_intent:{payment_intent_id}
    cStripe,          \* Redis stripe_status:{payment_intent_id}
    cChange,          \* Redis status_change:{payment_intent_id}
    processed,        \* Redis markers of the event ids processed
    tasks,            \* goroutines started and not yet finished
    clearPending,     \* CheckStatusChange calls between their GET and their DEL
    qResp,            \* the answer of GetPaymentStatus, if the last step was one
    wResp,            \* the answer of StripeWebhook, if the last step was one
    pResp,            \* the answer of CheckStatusChange, if the last step was one
    updCount,         \* per event id: how often the webhook processed it
    undelivered,      \* the recorded transition no poll has reported yet
    changeDeliveries, \* polls that reported the transition recorded last
    succIngested,     \* a "succeeded" notification has been processed
    reqs,             \* creation requests: position and answer of each
    rows,             \* payment_history rows written by the creation flow
    intents,          \* PaymentIntents the provider created, with their keys
    cachedIds,        \* payment ids the creation handler has cached
    price,            \* payment_config.amount of the currency charged
    uResp,            \* the answer of GetUserPaymentInfo, if the last step was one
    classified,       \* the status strings classified so far, with the results
    now,              \* the clock read by time.Now(), in ticks
    memoryStore,      \* memoryStore.requests[key]: the times kept for the key
    memLock,          \* the holder of memoryStore's mutex, or 0
    zset,             \* the Redis sorted set of the key: members per score
    zExpireAt,        \* the tick at which Redis drops the key
    checks,           \* rate-limit checks: position and locals of each
    admitted,         \* the requests let through, per store and time
    apiKeyCache,      \* apiKeyCache.keys: the ordinary API keys
    adminKeyCache,    \* adminKeyCache.keys: the administrator API keys
    aResp,            \* the answer to an administrator request, if the last step was one
    shuttingDown,     \* ShutdownManager.shuttingDown
    smPc,             \* where the signal goroutine of the ShutdownManager stands
    fnState,          \* per registered shutdown function: how far it has come
    doneClosed,       \* gracefulShutdown's channel done has been closed
    elapsed           \* seconds since gracefulShutdown created its context

limitVars == <<now, memoryStore, memLock, zset, zExpireAt, checks, admitted>>
authVars  == <<apiKeyCache, adminKeyCache, aResp>>
shutVars  == <<shuttingDown, smPc, fnState, doneClosed, elapsed>>
infraVars == <<limitVars, authVars, shutVars>>
cfgVars   == <<cacheUp, dbUp, taskCap, classified, infraVars>>
provVars  == <<stripeSt, events>>
dbVars    == <<dbStatus, upiCount>>
cacheVars == <<cPayment, cPaymentRef, cStripe, cChange, processed>>
respVars  == <<qResp, wResp, pResp>>
histVars  == <<updCount, undelivered, changeDeliveries, succIngested>>
statusVars ==
    <<provVars, dbVars, cacheVars, tasks, clearPending, respVars, histVars>>
createVars == <<reqs, rows, intents, cachedIds, price, uResp>>
vars == <<cfgVars, statusVars, createVars>>

None == "none"

-----------------------------------------------------------------------------
(* The answer of the handler that ran in the step just taken; a step of    *)
(* anything else answers nothing.                                          *)

NoAnswer ==
    [key |-> None, status |-> None, source |-> None, cached |-> FALSE, calls |-> 0,
     changed |-> FALSE, dbErr |-> FALSE]

NoWebhookAnswer == [sig |-> None, ack |-> None, id |-> 0, type |-> None, status |-> None]

NoTransition == [old |-> None, new |-> None]

NoPollAnswer ==
    [polled |-> FALSE, changed |-> FALSE, old |-> None, new |-> None,
     pend |-> NoTransition]

NoResponse == qResp' = NoAnswer /\ wResp' = NoWebhookAnswer /\ pResp' = NoPollAnswer

-----------------------------------------------------------------------------
(* Bounds of the model *)
MaxEvents   == 2    \* provider status changes (one event each)
MaxProcess  == 2    \* times the webhook processes one event id
MaxUpi      == 2    \* cap of the stored per-user success counter
MaxTasks    == 1    \* goroutines in flight when a handler starts more
MaxPollers  == 2    \* polls between GET and DEL
MaxReqs     == 3    \* creation requests
MaxClassify == 2    \* status strings classified in one run
MaxNow      == 3    \* ticks of the clock
MaxCheckers == 2    \* concurrent rate-limit checks of one key
RateLimit   == 2    \* config.Limit of the key
RateWindow  == 2    \* config.Window of the key, in ticks

(* Amounts, in cents: the default price and another configured one *)
DefaultAmount == 5900
OtherAmount   == 9900

(* Program constants, in seconds *)
ShutdownTimeout        == 30
FinalStatusCacheTTL    == 300
DefaultPaymentCacheTTL == 1800
StatusChangeTTL        == 60
FinalStatusTTL         == 5
IntermediateStatusTTL  == 10
ProcessedEventTTL      == 259200

-----------------------------------------------------------------------------
(* Status classifier and TTL policy *)

FinalStatuses == {"succeeded", "failed", "canceled", "requires_capture"}

IntermediateStatuses ==
    {"requires_payment_method", "requires_confirmation", "requires_action", "processing"}

IsFinalStatus(status) == status \in FinalStatuses

(* A classifier that also takes requires_capture for Intermediate *)
IsIntermediateStatusWide(status) ==
    status \in IntermediateStatuses \cup {"requires_capture"}

IsIntermediateStatus(status) == status \in IntermediateStatuses

(* Status strings a caller may pass: the provider's vocabulary, a status in *)
(* another case, a status of another object, the empty string              *)
StatusStrings ==
    FinalStatuses \cup IntermediateStatuses \cup {"Succeeded", "refunded", "unknown", ""}

(* The two predicates applied to one string *)
Classification(status) ==
    [status |-> status, final |-> IsFinalStatus(status),
     intermediate |-> IsIntermediateStatus(status)]

(* A caller classifies a status string; nothing else changes *)
ClassifyStatus ==
    /\ Len(classified) < MaxClassify
    /\ \E s \in StatusStrings : classified' = Append(classified, Classification(s))
    /\ UNCHANGED <<cacheUp, dbUp, taskCap, infraVars, statusVars, createVars>>

GetStripeStatusTTL(status) ==
    IF IsFinalStatus(status) THEN FinalStatusTTL
    ELSE IF IsIntermediateStatus(status) THEN IntermediateStatusTTL
    ELSE FinalStatusTTL

-----------------------------------------------------------------------------
(* The provider: the lifecycle of a PaymentIntent and the event each       *)
(* change emits.  A failed attempt leaves or returns the intent to         *)
(* requires_payment_method and emits payment_intent.payment_failed.        *)

StripeNext(s) ==
    CASE s = "requires_payment_method" ->
             {"requires_payment_method", "processing", "requires_capture", "succeeded",
              "canceled"}
      [] s = "processing"              -> {"succeeded", "requires_payment_method"}
      [] s = "requires_capture"        -> {"succeeded", "canceled"}
      [] OTHER                         -> {}

EventType(s) ==
    CASE s = "succeeded"               -> "payment_intent.succeeded"
      [] s = "canceled"                -> "payment_intent.canceled"
      [] s = "requires_payment_method" -> "payment_intent.payment_failed"
      [] s = "processing"              -> "payment_intent.processing"
      [] OTHER                         -> "payment_intent.amount_capturable_updated"

StripeAdvance ==
    /\ Cardinality(events) < MaxEvents
    /\ \E s \in StripeNext(stripeSt) :
          /\ stripeSt' = s
          /\ events' = events \cup
                {[id |-> Cardinality(events) + 1, type |-> EventType(s), status |-> s]}
    /\ NoResponse
    /\ UNCHANGED <<cfgVars, dbVars, cacheVars, tasks, clearPending, histVars,
                   createVars>>

-----------------------------------------------------------------------------
(* Cache entries and the goroutines that write them *)

Entry(status, ttl) == [status |-> status, ttl |-> ttl]

(* redis.Nil: the key is absent *)
Miss == Entry(None, 0)

Hit(e) == e.status # None

NoChange == [old |-> None, new |-> None, source |-> None, ttl |-> 0]

HasRow == dbUp /\ dbStatus # None

(* What a read of the cache returns to its caller: (data, err) *)
CacheResult(data, err) == [data |-> data, err |-> err]

(* cache.GetPayment: (nil, nil) without a client, (nil, nil) on redis.Nil, *)
(* the snapshot otherwise.  up is IsAvailable(), e the entry under the key *)
GetPayment(up, e) ==
    IF ~up THEN CacheResult(Miss, None)
    ELSE IF ~Hit(e) THEN CacheResult(Miss, None)
    ELSE CacheResult(e, None)

(* cache.GetStatusChangeEvent: the same three cases *)
GetStatusChangeEvent(up, ev) ==
    IF ~up THEN CacheResult(NoChange, None)
    ELSE IF ev = NoChange THEN CacheResult(NoChange, None)
    ELSE CacheResult(ev, None)

(* A goroutine: kind, the status it captured (s), the live status a        *)
(* revalidation fetched (t, None before the fetch), and one flag (f).      *)
Task(kind, s, t, f) == [kind |-> kind, s |-> s, t |-> t, f |-> f]

(* A handler starts its goroutines while fewer than taskCap are in flight *)
Fits(new) == new = {} \/ Cardinality(tasks) < taskCap

(* stripe_status entry after updateStripeStatusCache(intent) *)
UpdateStripeStatusCache(cur, status) ==
    IF ~cacheUp THEN cur
    ELSE IF IsFinalStatus(status) THEN Entry(status, FinalStatusCacheTTL)
    ELSE IF IsIntermediateStatus(status) THEN Entry(status, GetStripeStatusTTL(status))
    ELSE cur

(* A snapshot TTL that leaves every status but the Final ones unexpiring *)
PaymentTTLFinalOnly(status) == IF IsFinalStatus(status) THEN FinalStatusCacheTTL ELSE 0

(* TTL of the payment snapshot written by updateCacheFromStripe *)
PaymentTTL(status) ==
    IF IsFinalStatus(status) THEN FinalStatusCacheTTL ELSE DefaultPaymentCacheTTL

(* payment / payment_intent entry after updateCacheFromStripe(paymentID,   *)
(* ...): written only when paymentID names a row (byId) of the database.   *)
UpdateCacheFromStripe(cur, status, byId) ==
    IF cacheUp /\ byId /\ HasRow THEN Entry(status, PaymentTTL(status)) ELSE cur

(* RecordStatusChange: the event replaces whatever is stored under the key *)
RecordStatusChange(cur, old, new, source) ==
    IF ~cacheUp THEN cur
    ELSE [old |-> old, new |-> new, source |-> source, ttl |-> StatusChangeTTL]

(* UpdatePaymentStatus: UPDATE ... WHERE payment_intent_id = $2 *)
UpdatePaymentStatus(cur, status) == IF cur = None THEN cur ELSE status

-----------------------------------------------------------------------------
(* GetPaymentStatus, synchronous part.  key is "id" (internal payment id)  *)
(* or "pi" (PaymentIntent id); ok is whether a provider call succeeds,     *)
(* dbOk whether the handler's SELECT returns without error.  The result is *)
(* the answer and the goroutines started.                                  *)

Answer(key, status, source, cached, calls) ==
    [key |-> key, status |-> status, source |-> source, cached |-> cached,
     calls |-> calls,
     changed |-> (source \in {"cache", "database+cache"} /\ calls = 0
                  /\ ~IsFinalStatus(status) /\ cChange # NoChange),
     dbErr |-> FALSE]

Out(resp, spawn) == [resp |-> resp, spawn |-> spawn]

(* Step 1: the payment snapshot is cached under the queried id *)
QueryCachedPayment(key, ok) ==
    IF Hit(cStripe) /\ ~IsFinalStatus(cStripe.status)
    THEN Out(Answer(key, cStripe.status, "cache", TRUE, 0),
             {Task("reval", cStripe.status, None, TRUE)})
    ELSE IF ok
    THEN Out(Answer(key, stripeSt, "stripe", FALSE, 1),
             {Task("updCache", stripeSt, None, TRUE)})
    ELSE Out(Answer(key, cPayment.status, "cache", TRUE, 1), {})

(* A step 3 without step 3.1: the provider is called whatever is cached *)
QueryStripeUncached(key, ok, pre, dbSt) ==
    IF ~ok
    THEN Out(Answer(key, dbSt, "database", FALSE, 1), pre)
    ELSE Out(Answer(key, stripeSt, "database+stripe", FALSE, 1),
             pre \cup (IF cacheUp THEN {Task("updCache", stripeSt, None, key = "id")}
                       ELSE {}))

(* A step 3 that answers the row at once and leaves the provider call to a *)
(* goroutine                                                               *)
QueryStripeDeferred(key, ok, pre, dbSt) ==
    Out(Answer(key, dbSt, "database", FALSE, 0),
        pre \cup {Task("reval", dbStatus, None, key = "id")})

(* Steps 3.1-3.3: the PaymentIntent id is known, the row is not Final.     *)
(* dbSt is the handler's dbStatus variable: the status of the row read in  *)
(* step 2, "" when no row was read.                                        *)
QueryStripe(key, ok, pre, dbSt) ==
    IF cacheUp /\ Hit(cStripe)
    THEN IF IsFinalStatus(cStripe.status)
         THEN Out(Answer(key, cStripe.status, "cache", TRUE, 0),
                  pre \cup (IF dbUp THEN {Task("verifyDB", cStripe.status, None, FALSE)}
                            ELSE {}))
         ELSE Out(Answer(key, cStripe.status, "database+cache", TRUE, 0),
                  pre \cup {Task("reval", cStripe.status, None, key = "id")})
    ELSE IF ~ok
    THEN Out(Answer(key, dbSt, "database", FALSE, 1), pre)
    ELSE Out(Answer(key, stripeSt, "database+stripe", FALSE, 1),
             pre \cup (IF cacheUp THEN {Task("updCache", stripeSt, None, key = "id")}
                       ELSE {}))

(* A step 2 that goes on to step 3 whatever status the row holds *)
QueryDatabaseUnchecked(key, ok, dbOk) ==
    LET row    == HasRow /\ dbOk
        fromDB == IF cacheUp THEN {Task("setFromDB", dbStatus, None, key = "pi")} ELSE {}
    IN  IF row THEN QueryStripe(key, ok, fromDB, dbStatus)
        ELSE IF key = "pi" THEN QueryStripe(key, ok, {}, "")
        ELSE Out(Answer(key, "", "not_found", FALSE, 0), {})

(* Step 2: the database, by payment_intent_id or by payment_id *)
QueryDatabase(key, ok, dbOk) ==
    LET row    == HasRow /\ dbOk
        fromDB == IF cacheUp THEN {Task("setFromDB", dbStatus, None, key = "pi")} ELSE {}
    IN  IF row /\ IsFinalStatus(dbStatus)
        THEN Out(Answer(key, dbStatus, "database", FALSE, 0), fromDB)
        ELSE IF row THEN QueryStripe(key, ok, fromDB, dbStatus)
        ELSE IF key = "pi" THEN QueryStripe(key, ok, {}, "")
        ELSE Out(Answer(key, "", "not_found", FALSE, 0), {})

(* cache.GetPayment(paymentID) returns a snapshot: step 1 answers *)
SnapshotCached(key) == key = "id" /\ Hit(GetPayment(cacheUp, cPayment).data)

GetPaymentStatusOutcome(key, ok, dbOk) ==
    IF SnapshotCached(key)
    THEN QueryCachedPayment(key, ok)
    ELSE LET out == QueryDatabase(key, ok, dbOk)
         IN  Out([out.resp EXCEPT !.dbErr = dbUp /\ ~dbOk], out.spawn)

GetPaymentStatusStep(key, ok, dbOk) ==
    LET out == GetPaymentStatusOutcome(key, ok, dbOk)
    IN  /\ Fits(out.spawn)
        /\ qResp' = out.resp
        /\ tasks' = tasks \cup out.spawn
        /\ wResp' = NoWebhookAnswer /\ pResp' = NoPollAnswer
        /\ UNCHANGED <<cfgVars, provVars, dbVars, cacheVars, clearPending,
                       histVars, createVars>>

(* A query whose SELECT, if it runs one, returns without error *)
GetPaymentStatus ==
    \E key \in {"id", "pi"}, ok \in BOOLEAN : GetPaymentStatusStep(key, ok, TRUE)

(* A query whose SELECT fails (db.GetPaymentByIntentID or                  *)
(* db.GetPaymentByPaymentID returns an error)                              *)
GetPaymentStatusDbError ==
    \E key \in {"id", "pi"}, ok \in BOOLEAN :
        /\ dbUp /\ ~SnapshotCached(key)
        /\ GetPaymentStatusStep(key, ok, FALSE)

-----------------------------------------------------------------------------
(* The goroutines *)

(* Handlers' cache refresh from the row they read (steps 2 of the query) *)
SetFromDB ==
    \E t \in tasks :
        /\ t.kind = "setFromDB"
        /\ LET e == Entry(t.s, PaymentTTL(t.s))
           IN  /\ cPayment' = e
               /\ cPaymentRef' = IF t.f THEN e ELSE cPaymentRef
               /\ cStripe' = IF IsFinalStatus(t.s) THEN Entry(t.s, FinalStatusCacheTTL)
                             ELSE cStripe
        /\ tasks' = tasks \ {t}
        /\ NoResponse
        /\ UNCHANGED <<cfgVars, provVars, dbVars, cChange, processed, clearPending,
                       histVars, createVars>>

(* Stale-while-revalidate, first half: GetPaymentIntent *)
RevalidateFetch ==
    \E t \in tasks, ok \in BOOLEAN :
        /\ t.kind = "reval" /\ t.t = None
        /\ tasks' = IF ok THEN (tasks \ {t}) \cup {Task("reval", t.s, stripeSt, t.f)}
                    ELSE tasks \ {t}
        /\ NoResponse
        /\ UNCHANGED <<cfgVars, provVars, dbVars, cacheVars, clearPending, histVars,
                       createVars>>

(* Stale-while-revalidate, second half: record the change, update the row  *)
(* and rewrite the cache entries                                           *)
RevalidateWrite ==
    \E t \in tasks :
        /\ t.kind = "reval" /\ t.t # None
        /\ LET diff == t.t # t.s
           IN  /\ cChange' = IF diff THEN RecordStatusChange(cChange, t.s, t.t, "revalidate")
                             ELSE cChange
               /\ undelivered' = IF diff /\ cacheUp THEN [old |-> t.s, new |-> t.t]
                                 ELSE undelivered
               /\ changeDeliveries' = IF diff /\ cacheUp THEN 0 ELSE changeDeliveries
               /\ dbStatus' = IF diff /\ dbUp THEN UpdatePaymentStatus(dbStatus, t.t)
                              ELSE dbStatus
        /\ cStripe' = UpdateStripeStatusCache(cStripe, t.t)
        /\ cPayment' = UpdateCacheFromStripe(cPayment, t.t, t.f)
        /\ cPaymentRef' = UpdateCacheFromStripe(cPaymentRef, t.t, t.f)
        /\ tasks' = tasks \ {t}
        /\ NoResponse
        /\ UNCHANGED <<cfgVars, provVars, upiCount, processed, clearPending, updCount,
                       succIngested, createVars>>

(* Write-through after a synchronous provider call (steps 1.2 and 3.3) *)
UpdateCache ==
    \E t \in tasks :
        /\ t.kind = "updCache"
        /\ cStripe' = UpdateStripeStatusCache(cStripe, t.s)
        /\ cPayment' = UpdateCacheFromStripe(cPayment, t.s, t.f)
        /\ cPaymentRef' = UpdateCacheFromStripe(cPaymentRef, t.s, t.f)
        /\ tasks' = tasks \ {t}
        /\ NoResponse
        /\ UNCHANGED <<cfgVars, provVars, dbVars, cChange, processed, clearPending,
                       histVars, createVars>>

(* Step 3.1, Final cache hit: compare with the row, the row wins *)
VerifyDatabase ==
    \E t \in tasks :
        /\ t.kind = "verifyDB"
        /\ cStripe' = IF HasRow /\ dbStatus # t.s
                      THEN Entry(dbStatus, FinalStatusCacheTTL) ELSE cStripe
        /\ tasks' = tasks \ {t}
        /\ NoResponse
        /\ UNCHANGED <<cfgVars, provVars, dbVars, cPayment, cPaymentRef, cChange,
                       processed, clearPending, histVars, createVars>>

(* The webhook's cache update; f: the branch that writes with the Final TTL *)
WebhookCache ==
    \E t \in tasks :
        /\ t.kind = "whCache"
        /\ cStripe' = IF t.f THEN Entry(t.s, FinalStatusCacheTTL)
                      ELSE Entry(t.s, GetStripeStatusTTL(t.s))
        /\ cPayment' = IF t.f /\ HasRow THEN Entry(t.s, FinalStatusCacheTTL) ELSE cPayment
        /\ cPaymentRef' = IF t.f /\ HasRow THEN Entry(t.s, FinalStatusCacheTTL)
                          ELSE cPaymentRef
        /\ tasks' = tasks \ {t}
        /\ NoResponse
        /\ UNCHANGED <<cfgVars, provVars, dbVars, cChange, processed, clearPending,
                       histVars, createVars>>

(* The front-end update's cache refresh *)
FrontendCache ==
    \E t \in tasks :
        /\ t.kind = "feCache"
        /\ cStripe' = UpdateStripeStatusCache(cStripe, t.s)
        /\ cPayment' = IF HasRow THEN Entry(t.s, DefaultPaymentCacheTTL) ELSE cPayment
        /\ cPaymentRef' = IF HasRow THEN Entry(t.s, DefaultPaymentCacheTTL) ELSE Miss
        /\ tasks' = tasks \ {t}
        /\ NoResponse
        /\ UNCHANGED <<cfgVars, provVars, dbVars, cChange, processed, clearPending,
                       histVars, createVars>>

(* The creation handler's cache fill: the row as it is when the goroutine runs *)
CreateCache ==
    \E t \in tasks :
        /\ t.kind = "createCache"
        /\ cPayment' = IF HasRow THEN Entry(dbStatus, DefaultPaymentCacheTTL) ELSE cPayment
        /\ cPaymentRef' = IF HasRow THEN Entry(dbStatus, DefaultPaymentCacheTTL)
                          ELSE cPaymentRef
        /\ tasks' = tasks \ {t}
        /\ NoResponse
        /\ UNCHANGED <<cfgVars, provVars, dbVars, cStripe, cChange, processed,
                       clearPending, histVars, createVars>>

-----------------------------------------------------------------------------
(* StripeWebhook *)

(* A verification that accepts any signature that is present *)
ConstructEventUnverified(sig) == sig # "missing"

(* webhook.ConstructEventWithOptions returns no error *)
ConstructEvent(sig) == sig = "valid"

(* A switch that has a case for payment_intent.processing as well *)
RecognisedTypesWide ==
    {"payment_intent.succeeded", "payment_intent.payment_failed", "payment_intent.canceled",
     "payment_intent.processing"}

RecognisedTypes ==
    {"payment_intent.succeeded", "payment_intent.payment_failed", "payment_intent.canceled"}

(* A body that was not signed by the provider *)
ForgedEvent == [id |-> 0, type |-> "payment_intent.succeeded", status |-> "succeeded"]

EventIds == 0 .. MaxEvents

(* The marker of a processed event id in the Cache Store, written with a   *)
(* TTL that covers the provider's retry window                             *)
IsWebhookEventProcessed(id) == \E m \in processed : m.id = id

MarkWebhookEventProcessed(set, id) ==
    IF cacheUp THEN set \cup {[id |-> id, ttl |-> ProcessedEventTTL]} ELSE set

WebhookAnswer(sig, ack, e) ==
    [sig |-> sig, ack |-> ack, id |-> e.id, type |-> e.type, status |-> e.status]

(* The switch on event.Type: the row, the per-user counter, the goroutine *)
(* dbOk: the UPDATE of payment_history returns no error                    *)
WebhookProcess(sig, e, dbOk) ==
    LET rec  == e.type \in RecognisedTypes
        succ == e.type = "payment_intent.succeeded"
        upd  == rec /\ dbUp /\ dbOk
        new  == IF rec /\ dbUp /\ cacheUp /\ (succ => dbOk)
                THEN {Task("whCache", e.status, None, succ => IsFinalStatus(e.status))}
                ELSE {}
    IN  /\ upd => updCount[e.id] < MaxProcess
        /\ succ /\ dbUp => upiCount < MaxUpi
        /\ Fits(new)
        /\ dbStatus' = IF upd THEN UpdatePaymentStatus(dbStatus, e.status) ELSE dbStatus
        /\ upiCount' = IF succ /\ dbUp THEN upiCount + 1 ELSE upiCount
        /\ tasks' = tasks \cup new
        /\ processed' = MarkWebhookEventProcessed(processed, e.id)
        /\ updCount' = IF upd THEN [updCount EXCEPT ![e.id] = @ + 1] ELSE updCount
        /\ succIngested' = (succIngested \/ (succ /\ e.status = "succeeded"))
        /\ wResp' = WebhookAnswer(sig, "ok", e)
        /\ UNCHANGED <<cPayment, cPaymentRef, cStripe, cChange, undelivered,
                       changeDeliveries>>

StripeWebhook ==
    \E sig \in {"missing", "invalid", "valid"}, e \in events \cup {ForgedEvent},
       dbOk \in BOOLEAN :
        /\ e = ForgedEvent => sig # "valid"
        /\ IF sig = "missing" \/ ~ConstructEvent(sig)
           THEN /\ wResp' = WebhookAnswer(sig, "rejected", e)
                /\ UNCHANGED <<dbVars, cacheVars, tasks, histVars>>
           ELSE IF cacheUp /\ IsWebhookEventProcessed(e.id)
           THEN /\ wResp' = WebhookAnswer(sig, "duplicate", e)
                /\ UNCHANGED <<dbVars, cacheVars, tasks, histVars>>
           ELSE WebhookProcess(sig, e, dbOk)
        /\ qResp' = NoAnswer /\ pResp' = NoPollAnswer
        /\ UNCHANGED <<cfgVars, provVars, clearPending, createVars>>

-----------------------------------------------------------------------------
(* UpdatePaymentStatusFromFrontend: the status written is the provider's   *)
(* live one.  A failed provider call answers with an error and a missing   *)
(* database handle skips every write: neither changes the state.           *)

UpdatePaymentStatusFromFrontend ==
    LET new == IF cacheUp THEN {Task("feCache", stripeSt, None, FALSE)} ELSE {}
    IN  /\ dbUp
        /\ stripeSt = "succeeded" => upiCount < MaxUpi
        /\ Fits(new)
        /\ dbStatus' = UpdatePaymentStatus(dbStatus, stripeSt)
        /\ upiCount' = IF stripeSt = "succeeded" THEN upiCount + 1 ELSE upiCount
        /\ tasks' = tasks \cup new
        /\ NoResponse
        /\ UNCHANGED <<cfgVars, provVars, cacheVars, clearPending, histVars,
                       createVars>>

-----------------------------------------------------------------------------
(* CheckStatusChange: GetStatusChangeEvent and the answer, then, as a      *)
(* second Redis command, ClearStatusChangeEvent                            *)

PollAnswer(changed, old, new) ==
    [polled |-> TRUE, changed |-> changed, old |-> old, new |-> new,
     pend |-> undelivered]

CheckStatusChange ==
    /\ IF GetStatusChangeEvent(cacheUp, cChange).data # NoChange
       THEN /\ clearPending < MaxPollers
            /\ pResp' = PollAnswer(TRUE, cChange.old, cChange.new)
            /\ clearPending' = clearPending + 1
            /\ undelivered' = NoTransition
            /\ changeDeliveries' = changeDeliveries + 1
       ELSE /\ pResp' = PollAnswer(FALSE, None, None)
            /\ UNCHANGED <<clearPending, undelivered, changeDeliveries>>
    /\ qResp' = NoAnswer /\ wResp' = NoWebhookAnswer
    /\ UNCHANGED <<cfgVars, provVars, dbVars, cacheVars, tasks, updCount, succIngested,
                   createVars>>

ClearStatusChangeEvent ==
    /\ clearPending > 0
    /\ clearPending' = clearPending - 1
    /\ cChange' = NoChange
    /\ NoResponse
    /\ UNCHANGED <<cfgVars, provVars, dbVars, cPayment, cPaymentRef, cStripe,
                   processed, tasks, histVars, createVars>>

-----------------------------------------------------------------------------
(* Redis expiry: an entry's TTL runs out.  The processed-event markers are *)
(* kept for the provider's whole retry window.                             *)

Expire ==
    /\ \/ Hit(cPayment) /\ cPayment' = Miss
          /\ UNCHANGED <<cPaymentRef, cStripe, cChange, undelivered>>
       \/ Hit(cPaymentRef) /\ cPaymentRef' = Miss
          /\ UNCHANGED <<cPayment, cStripe, cChange, undelivered>>
       \/ Hit(cStripe) /\ cStripe' = Miss
          /\ UNCHANGED <<cPayment, cPaymentRef, cChange, undelivered>>
       \/ cChange # NoChange /\ cChange' = NoChange /\ undelivered' = NoTransition
          /\ UNCHANGED <<cPayment, cPaymentRef, cStripe>>
    /\ NoResponse
    /\ UNCHANGED <<cfgVars, provVars, dbVars, processed, tasks, clearPending, updCount,
                   changeDeliveries, succIngested, createVars>>

-----------------------------------------------------------------------------
(* Payment creation.  Request r carries an Idempotency-Key header (key,    *)
(* "" when absent) and draws the fresh payment id r.  pc is its position:  *)
(* idle, create (the dedup check missed), save (its PaymentIntent exists), *)
(* cache (answered, cache goroutine pending), done.  fault: a statement of *)
(* the request met a database error other than the unique violation, or    *)
(* the provider lookup that follows a unique violation failed.             *)

Requests == 1 .. MaxReqs

Keys == {"", "k1"}

Users == {"u1", "u2"}

(* req.UserID: the last request is another user's *)
UserOf(r) == IF r = MaxReqs THEN "u2" ELSE "u1"

Prices == {DefaultAmount, OtherAmount}

(* The answer of GetUserPaymentInfo; a step of anything else answers none *)
NoUserInfo ==
    [user |-> None, has_paid |-> FALSE, total_payment_count |-> 0,
     total_payment_amount |-> 0, err |-> None]

Request(pc, key, intent, pid, ref, err) ==
    [pc |-> pc, key |-> key, intent |-> intent, pid |-> pid, ref |-> ref, err |-> err,
     fault |-> FALSE]

IdleRequest == Request("idle", "", 0, 0, 0, None)

(* A payment_history row as INSERTed: the status is the new intent's; old:  *)
(* created_at lies more than 30 days back                                  *)
Row(pi, pid, key, user, amount) ==
    [pi |-> pi, pid |-> pid, key |-> key, user |-> user, amount |-> amount,
     status |-> "requires_payment_method", old |-> FALSE]

(* The user's rows whatever their status *)
SucceededRowsAnyStatus(user) == {row \in rows : row.user = user}

(* SELECT ... FROM payment_history WHERE user_id = $1 AND status =          *)
(* 'succeeded'                                                             *)
SucceededRows(user) == {row \in rows : row.user = user /\ row.status = "succeeded"}

RECURSIVE Sum(_)
(* SUM(amount) over a set of rows *)
Sum(S) == IF S = {} THEN 0
          ELSE LET row == CHOOSE x \in S : TRUE IN row.amount + Sum(S \ {row})

(* db.GetUserPaymentInfo: the COUNT, the COALESCE(SUM(amount), 0), the flag *)
GetUserPaymentInfo(user) ==
    LET S == SucceededRows(user)
    IN  [user |-> user, has_paid |-> Cardinality(S) > 0,
         total_payment_count |-> Cardinality(S), total_payment_amount |-> Sum(S),
         err |-> None]

(* A validity check that finds no user paid *)
CheckUserPaymentValidityNever(user) == FALSE

(* CheckUserPaymentValidity: has_paid and MAX(created_at) of the succeeded *)
(* rows at most 30 days back                                               *)
CheckUserPaymentValidity(user) ==
    dbUp /\ GetUserPaymentInfo(user).has_paid
         /\ \E row \in SucceededRows(user) : ~row.old

(* GetCurrentPricing: the configured amount, the default without database *)
GetCurrentPricing == IF dbUp THEN price ELSE DefaultAmount

(* c.JSON(StatusOK, response), then the cache goroutine if there is a cache *)
Respond(q, pid, ref) ==
    [q EXCEPT !.pc = IF cacheUp THEN "cache" ELSE "done", !.pid = pid, !.ref = ref]

(* SendError(ErrPaymentProcessing) *)
Fail(q, err) == [q EXCEPT !.pc = "done", !.err = err]

(* AlreadyPaidError: answered 200 with already_paid = true *)
AlreadyPaid(q) == [q EXCEPT !.pc = "done", !.err = "already_paid"]

(* A lookup that finds no row whatever the key *)
GetPaymentByIdempotencyKeyBlind(key) == {}

(* GetPaymentByIdempotencyKey: nil for the empty key *)
GetPaymentByIdempotencyKey(key) ==
    IF key = "" THEN {} ELSE {row \in rows : row.key = key}

(* CheckIdempotency and the handler's early return; dbOk: the lookup       *)
(* returns no error.  The answer carries the row's ids whether or not the  *)
(* provider can be reached for the client secret.                          *)
CheckIdempotency ==
    \E r \in Requests, key \in Keys, dbOk \in BOOLEAN :
        /\ reqs[r].pc = "idle"
        /\ LET q     == [reqs[r] EXCEPT !.key = key,
                                         !.fault = (key # "" /\ dbUp /\ ~dbOk)]
               found == IF key = "" \/ ~dbUp \/ ~dbOk THEN {}
                        ELSE GetPaymentByIdempotencyKey(key)
           IN  reqs' = [reqs EXCEPT ![r] =
                           IF found = {} THEN [q EXCEPT !.pc = "create"]
                           ELSE LET row == CHOOSE x \in found : TRUE
                                IN  [q EXCEPT !.pc = "done", !.pid = row.pid,
                                              !.ref = row.pi]]
        /\ uResp' = NoUserInfo
        /\ UNCHANGED <<cfgVars, statusVars, rows, intents, cachedIds, price>>

(* A creation call without the Idempotency-Key header *)
ForwardedKeyDropped(key) == ""

(* params.IdempotencyKey: the key is passed on to the provider *)
ForwardedKey(key) == key

(* The provider refuses a key it has seen with other parameters; the       *)
(* metadata of every creation call holds a fresh payment id.               *)
StripeRefuses(key) == key # "" /\ \E i \in intents : i.key = key

(* CreateStripePayment up to paymentintent.New; ok: the provider answers,  *)
(* vOk: the aggregate query of the validity check returns no error         *)
CreateStripePayment ==
    \E r \in Requests, ok \in BOOLEAN, vOk \in BOOLEAN :
        LET q   == reqs[r]
            key == ForwardedKey(q.key)
            id  == Cardinality(intents) + 1
        IN  /\ q.pc = "create"
            /\ IF dbUp /\ ~vOk
               THEN /\ reqs' = [reqs EXCEPT ![r] = Fail([q EXCEPT !.fault = TRUE], "validity")]
                    /\ UNCHANGED intents
               ELSE IF CheckUserPaymentValidity(UserOf(r))
               THEN /\ reqs' = [reqs EXCEPT ![r] = AlreadyPaid(q)]
                    /\ UNCHANGED intents
               ELSE IF ~ok \/ StripeRefuses(key)
               THEN /\ reqs' = [reqs EXCEPT ![r] =
                                   Fail(q, IF ok THEN "idempotency" ELSE "unavailable")]
                    /\ UNCHANGED intents
               ELSE /\ intents' = intents \cup
                          {[id |-> id, key |-> key, user |-> UserOf(r),
                            amount |-> GetCurrentPricing, paid |-> FALSE]}
                    /\ reqs' = [reqs EXCEPT ![r] =
                                   IF dbUp THEN [q EXCEPT !.pc = "save", !.intent = id]
                                   ELSE Respond([q EXCEPT !.intent = id], r, id)]
            /\ uResp' = NoUserInfo
            /\ UNCHANGED <<cfgVars, statusVars, rows, cachedIds, price>>

(* The unique index on idempotency_key covers every non-NULL value, the    *)
(* empty string of a request without a key included.                       *)
DuplicateIdempotencyKey(key) == \E row \in rows : row.key = key

(* The PaymentIntent a request created *)
IntentOf(id) == CHOOSE i \in intents : i.id = id

(* SavePaymentWithMetadata and the answer.  dbOk: the INSERT meets no      *)
(* other error; reOk: the re-read and the provider lookup after a          *)
(* duplicate key both succeed.                                             *)
SavePaymentHistory ==
    \E r \in Requests, dbOk \in BOOLEAN, reOk \in BOOLEAN :
        LET dup    == DuplicateIdempotencyKey(reqs[r].key)
            q      == [reqs[r] EXCEPT !.fault = (@ \/ ~dbOk \/ (dup /\ ~reOk))]
            winner == GetPaymentByIdempotencyKey(q.key)
        IN  /\ q.pc = "save"
            /\ IF dbOk /\ ~dup
               THEN /\ rows' = rows \cup
                          {Row(q.intent, r, q.key, UserOf(r), IntentOf(q.intent).amount)}
                    /\ reqs' = [reqs EXCEPT ![r] = Respond(q, r, q.intent)]
               ELSE /\ UNCHANGED rows
                    /\ reqs' = [reqs EXCEPT ![r] =
                          IF dbOk /\ reOk /\ winner # {}
                          THEN LET row == CHOOSE x \in winner : TRUE
                               IN  Respond(q, row.pid, row.pi)
                          ELSE Respond(q, r, q.intent)]
            /\ uResp' = NoUserInfo
            /\ UNCHANGED <<cfgVars, statusVars, intents, cachedIds, price>>

(* The handler's goroutine: cache the row of the answered payment id *)
CacheCreatedPayment ==
    \E r \in Requests :
        /\ reqs[r].pc = "cache"
        /\ reqs' = [reqs EXCEPT ![r].pc = "done"]
        /\ cachedIds' = IF dbUp /\ \E row \in rows : row.pid = reqs[r].pid
                        THEN cachedIds \cup {reqs[r].pid} ELSE cachedIds
        /\ uResp' = NoUserInfo
        /\ UNCHANGED <<cfgVars, statusVars, rows, intents, price>>

(* The provider confirms a PaymentIntent and the succeeded notification is *)
(* processed: the status of the row with that payment_intent_id, and the   *)
(* stored counter of the intent's user, here followed for the first user   *)
PaymentSucceeded ==
    \E i \in intents :
        /\ dbUp /\ ~i.paid
        /\ i.user = UserOf(1) => upiCount < MaxUpi
        /\ intents' = (intents \ {i}) \cup {[i EXCEPT !.paid = TRUE]}
        /\ rows' = {IF row.pi = i.id THEN [row EXCEPT !.status = "succeeded"] ELSE row :
                       row \in rows}
        /\ upiCount' = IF i.user = UserOf(1) THEN upiCount + 1 ELSE upiCount
        /\ uResp' = NoUserInfo
        /\ UNCHANGED <<cfgVars, provVars, dbStatus, cacheVars, tasks, clearPending,
                       respVars, histVars, reqs, cachedIds, price>>

(* More than 30 days pass: every row's created_at leaves the window *)
MonthPasses ==
    /\ \E row \in rows : ~row.old
    /\ rows' = {[row EXCEPT !.old = TRUE] : row \in rows}
    /\ uResp' = NoUserInfo
    /\ UNCHANGED <<cfgVars, statusVars, reqs, intents, cachedIds, price>>

(* UpdatePaymentConfig: the operator replaces the default amount *)
UpdatePaymentConfig ==
    /\ dbUp /\ price = DefaultAmount
    /\ \E a \in Prices \ {price} : price' = a
    /\ uResp' = NoUserInfo
    /\ UNCHANGED <<cfgVars, statusVars, reqs, rows, intents, cachedIds>>

(* The handler GetUserPaymentInfo; dbOk: the aggregate query returns no    *)
(* error                                                                   *)
GetUserPaymentInfoHandler ==
    \E user \in Users, dbOk \in BOOLEAN :
        /\ uResp' = IF dbUp /\ dbOk THEN GetUserPaymentInfo(user)
                    ELSE [NoUserInfo EXCEPT !.err = "database"]
        /\ UNCHANGED <<cfgVars, statusVars, reqs, rows, intents, cachedIds, price>>

CreateIdle ==
    /\ reqs = [r \in Requests |-> IdleRequest]
    /\ rows = {}
    /\ intents = {}
    /\ cachedIds = {}
    /\ price = DefaultAmount
    /\ uResp = NoUserInfo

-----------------------------------------------------------------------------
(* The rate limiter: concurrent checks of one key (one client address and  *)
(* path) against the Redis sorted set or the in-process store              *)

Checkers == 1 .. MaxCheckers

Check(pc, t, n, res, valid) ==
    [pc |-> pc, now |-> t, count |-> n, res |-> res, validTimes |-> valid]

IdleCheck == Check("idle", 0, 0, None, <<>>)

Ticks == 0 .. MaxNow

Stores == {"redis", "memory"}

RECURSIVE SumOver(_, _)
SumOver(f, S) ==
    IF S = {} THEN 0
    ELSE LET x == CHOOSE y \in S : TRUE IN f[x] + SumOver(f, S \ {x})

NoMembers == [score \in Ticks |-> 0]

(* The members of the sorted set Redis still holds, per score *)
ZLive == IF now >= zExpireAt THEN NoMembers ELSE zset

(* ZCOUNT key min max: both ends inclusive *)
ZCount(min, max) == SumOver(ZLive, {score \in Ticks : min <= score /\ score <= max})

(* One more request let through by the store at time t *)
Admit(store, t) == [admitted EXCEPT ![store][t] = @ + 1]

(* A lock that is never held *)
MutexFreeAlways == TRUE

(* memoryStore.Lock() can be taken *)
MutexFree == memLock = 0

(* The entries of the store after windowStart, in order *)
ValidTimes(times, windowStart) == SelectSeq(times, LAMBDA t : t > windowStart)

(* checkRateLimitRedis up to the count: the window is read off the clock,  *)
(* the members in it are counted; at the limit the request is refused, a   *)
(* Redis error sends the check to the in-process store                     *)
CheckRateLimitRedisCount ==
    \E p \in Checkers, ok \in BOOLEAN :
        LET count == ZCount(now - RateWindow, now)
        IN  /\ cacheUp
            /\ checks[p].pc = "idle"
            /\ checks' = [checks EXCEPT ![p] =
                   IF ~ok THEN Check("memory", 0, 0, None, <<>>)
                   ELSE IF count >= RateLimit THEN Check("idle", 0, 0, "exceeded", <<>>)
                   ELSE Check("zadd", now, count, None, <<>>)]
            /\ UNCHANGED <<now, memoryStore, memLock, zset, zExpireAt, admitted>>
            /\ UNCHANGED <<cacheUp, dbUp, taskCap, classified, authVars, shutVars, statusVars,
                     createVars>>

(* The rest of checkRateLimitRedis: ZADD of the request, EXPIRE of the     *)
(* key, ZREMRANGEBYSCORE of the members up to windowStart; the request is  *)
(* let through.  A failed ZADD sends the check to the in-process store.    *)
CheckRateLimitRedisAdd ==
    \E p \in Checkers, ok \in BOOLEAN :
        LET c == checks[p]
            added == [ZLive EXCEPT ![c.now] = @ + 1]
        IN  /\ c.pc = "zadd"
            /\ IF ok
               THEN /\ zset' = [score \in Ticks |->
                                IF score > c.now - RateWindow THEN added[score] ELSE 0]
                    /\ zExpireAt' = now + RateWindow
                    /\ admitted' = Admit("redis", c.now)
                    /\ checks' = [checks EXCEPT ![p] =
                           Check("idle", 0, 0, "allowed", <<>>)]
               ELSE /\ checks' = [checks EXCEPT ![p] = Check("memory", 0, 0, None, <<>>)]
                    /\ UNCHANGED <<zset, zExpireAt, admitted>>
            /\ UNCHANGED <<now, memoryStore, memLock>>
            /\ UNCHANGED <<cacheUp, dbUp, taskCap, classified, authVars, shutVars, statusVars,
                     createVars>>

(* RateLimitMiddleware without Redis: the check goes to the in-process     *)
(* store                                                                   *)
RateLimitMiddlewareMemory ==
    \E p \in Checkers :
        /\ ~cacheUp
        /\ checks[p].pc = "idle"
        /\ checks' = [checks EXCEPT ![p] = Check("memory", 0, 0, None, <<>>)]
        /\ UNCHANGED <<now, memoryStore, memLock, zset, zExpireAt, admitted>>
        /\ UNCHANGED <<cacheUp, dbUp, taskCap, classified, authVars, shutVars, statusVars,
                     createVars>>

(* checkRateLimitMemory, first half: the mutex is taken, the clock and the *)
(* entries of the key are read                                             *)
CheckRateLimitMemoryLock ==
    \E p \in Checkers :
        /\ checks[p].pc = "memory"
        /\ MutexFree
        /\ memLock' = p
        /\ checks' = [checks EXCEPT ![p] =
               Check("locked", now, Len(ValidTimes(memoryStore, now - RateWindow)), None,
                     ValidTimes(memoryStore, now - RateWindow))]
        /\ UNCHANGED <<now, memoryStore, zset, zExpireAt, admitted>>
        /\ UNCHANGED <<cacheUp, dbUp, taskCap, classified, authVars, shutVars, statusVars,
                     createVars>>

(* checkRateLimitMemory, second half: at the limit the request is refused, *)
(* else its time is appended to the valid entries read and the list is     *)
(* stored; the deferred Unlock runs                                        *)
CheckRateLimitMemoryStore ==
    \E p \in Checkers :
        LET c == checks[p]
        IN  /\ c.pc = "locked"
            /\ IF c.count >= RateLimit
               THEN /\ checks' = [checks EXCEPT ![p] =
                           Check("idle", 0, 0, "exceeded", <<>>)]
                    /\ UNCHANGED <<memoryStore, admitted>>
               ELSE /\ memoryStore' = Append(c.validTimes, c.now)
                    /\ admitted' = Admit("memory", c.now)
                    /\ checks' = [checks EXCEPT ![p] =
                           Check("idle", 0, 0, "allowed", <<>>)]
            /\ memLock' = IF memLock = p THEN 0 ELSE memLock
            /\ UNCHANGED <<now, zset, zExpireAt>>
            /\ UNCHANGED <<cacheUp, dbUp, taskCap, classified, authVars, shutVars, statusVars,
                     createVars>>

(* The clock advances *)
Tick ==
    /\ now < MaxNow
    /\ now' = now + 1
    /\ UNCHANGED <<memoryStore, memLock, zset, zExpireAt, checks, admitted>>
    /\ UNCHANGED <<cacheUp, dbUp, taskCap, classified, authVars, shutVars, statusVars,
                     createVars>>

LimitIdle ==
    /\ now = 0
    /\ memoryStore = <<>>
    /\ memLock = 0
    /\ zset = NoMembers
    /\ zExpireAt = 0
    /\ checks = [p \in Checkers |-> IdleCheck]
    /\ admitted = [store \in Stores |-> [t \in Ticks |-> 0]]


-----------------------------------------------------------------------------
(* API-key authentication of the administrator endpoints *)

(* API keys that may be configured or sent; "" is a request without a key *)
KeyNames == {"key-a", "key-b", "key-c"}

NoAdminAnswer == [apiKey |-> None, code |-> 0, is_admin |-> FALSE]

(* InitAuth: the caches are rebuilt from API_KEYS and ADMIN_API_KEYS *)
InitAuth ==
    \E apiKeys \in SUBSET KeyNames, adminKeys \in SUBSET KeyNames :
        /\ apiKeyCache' = apiKeys
        /\ adminKeyCache' = adminKeys
        /\ aResp' = NoAdminAnswer
        /\ UNCHANGED <<cacheUp, dbUp, taskCap, classified, limitVars, shutVars, statusVars,
                     createVars>>

ValidateAPIKey(apiKey) == apiKey # "" /\ apiKey \in apiKeyCache

ValidateAdminAPIKey(apiKey) ==
    /\ apiKey # ""
    /\ \/ ValidateAPIKey(apiKey)
       \/ apiKey \in adminKeyCache

(* AdminAuthMiddleware on a request that carries apiKey: 401 without a     *)
(* key, 403 with a key that does not validate, else the handler runs with  *)
(* is_admin set                                                            *)
AdminAuthMiddleware ==
    \E apiKey \in KeyNames \cup {""} :
        /\ aResp' = IF apiKey = "" THEN [apiKey |-> apiKey, code |-> 401, is_admin |-> FALSE]
                    ELSE IF ~ValidateAdminAPIKey(apiKey)
                         THEN [apiKey |-> apiKey, code |-> 403, is_admin |-> FALSE]
                    ELSE [apiKey |-> apiKey, code |-> 200, is_admin |-> TRUE]
        /\ UNCHANGED <<apiKeyCache, adminKeyCache>>
        /\ UNCHANGED <<cacheUp, dbUp, taskCap, classified, limitVars, shutVars, statusVars,
                     createVars>>

AuthIdle ==
    /\ apiKeyCache = {}
    /\ adminKeyCache = {}
    /\ aResp = NoAdminAnswer

-----------------------------------------------------------------------------
(* Graceful shutdown: the goroutine that waits for SIGINT or SIGTERM and   *)
(* the shutdown functions main registered.  The goroutine's own steps take *)
(* no time; time passes while it waits in its select.                      *)

(* main registers one function per store it initialised *)
ShutdownFuncs ==
    (IF dbUp THEN {"database"} ELSE {}) \cup (IF cacheUp THEN {"redis"} ELSE {})

(* The clock is followed one second past the timeout *)
MaxElapsed == ShutdownTimeout + 1

(* A select without the timeout case *)
CtxDoneNever == FALSE

(* <-ctx.Done() can be received: the timeout of the context has passed *)
CtxDone == elapsed >= ShutdownTimeout

shutOther == <<cacheUp, dbUp, taskCap, classified, limitVars, authVars, statusVars, createVars>>

(* StartGracefulShutdown's goroutine receives the signal, sets             *)
(* shuttingDown and enters gracefulShutdown, which creates the context     *)
ReceiveSignal ==
    /\ smPc = "waiting"
    /\ ~shuttingDown
    /\ shuttingDown' = TRUE
    /\ smPc' = "running"
    /\ elapsed' = 0
    /\ UNCHANGED <<fnState, doneClosed, shutOther>>

(* gracefulShutdown copies the registered functions; without any it        *)
(* returns, else it starts the goroutine that runs them and waits          *)
GracefulShutdownRun ==
    /\ smPc = "running"
    /\ smPc' = IF ShutdownFuncs = {} THEN "returned" ELSE "select"
    /\ fnState' = [f \in ShutdownFuncs |-> "registered"]
    /\ UNCHANGED <<shuttingDown, doneClosed, elapsed, shutOther>>

(* The inner goroutine starts a goroutine for one more function *)
StartShutdownFunc ==
    \E f \in DOMAIN fnState :
        /\ fnState[f] = "registered"
        /\ fnState' = [fnState EXCEPT ![f] = "started"]
        /\ UNCHANGED <<shuttingDown, smPc, doneClosed, elapsed, shutOther>>

(* A function started returns, or turns out never to return *)
RunShutdownFunc ==
    \E f \in DOMAIN fnState, returns \in BOOLEAN :
        /\ fnState[f] = "started"
        /\ fnState' = [fnState EXCEPT ![f] = IF returns THEN "done" ELSE "hung"]
        /\ UNCHANGED <<shuttingDown, smPc, doneClosed, elapsed, shutOther>>

(* wg.Wait() returns once every function has returned; done is closed *)
CloseDone ==
    /\ DOMAIN fnState # {}
    /\ \A f \in DOMAIN fnState : fnState[f] = "done"
    /\ ~doneClosed
    /\ doneClosed' = TRUE
    /\ UNCHANGED <<shuttingDown, smPc, fnState, elapsed, shutOther>>

(* The select of gracefulShutdown: done closed or the context timed out *)
SelectShutdown ==
    /\ smPc = "select"
    /\ doneClosed \/ CtxDone
    /\ smPc' = "returned"
    /\ UNCHANGED <<shuttingDown, fnState, doneClosed, elapsed, shutOther>>

(* A second passes while gracefulShutdown waits and neither case of its    *)
(* select is ready                                                         *)
ShutdownTick ==
    /\ smPc = "select"
    /\ ~(doneClosed \/ CtxDone)
    /\ elapsed < MaxElapsed
    /\ elapsed' = elapsed + 1
    /\ UNCHANGED <<shuttingDown, smPc, fnState, doneClosed, shutOther>>

ShutdownIdle ==
    /\ shuttingDown = FALSE
    /\ smPc = "waiting"
    /\ fnState = << >>
    /\ doneClosed = FALSE
    /\ elapsed = 0

InfraIdle == LimitIdle /\ AuthIdle /\ ShutdownIdle

-----------------------------------------------------------------------------
(* The status half: one payment, just created *)

PaymentCreated ==
    /\ cacheUp \in BOOLEAN
    /\ dbUp \in BOOLEAN
    /\ classified = <<>>
    /\ InfraIdle
    /\ stripeSt = "requires_payment_method"
    /\ events = {}
    /\ dbStatus = IF dbUp THEN "requires_payment_method" ELSE None
    /\ upiCount = 0
    /\ cPayment = Miss /\ cPaymentRef = Miss /\ cStripe = Miss
    /\ cChange = NoChange
    /\ processed = {}
    /\ tasks = IF cacheUp /\ dbUp THEN {Task("createCache", None, None, FALSE)} ELSE {}
    /\ clearPending = 0
    /\ qResp = NoAnswer /\ wResp = NoWebhookAnswer /\ pResp = NoPollAnswer
    /\ updCount = [id \in EventIds |-> 0]
    /\ undelivered = NoTransition
    /\ changeDeliveries = 0
    /\ succIngested = FALSE
    /\ CreateIdle

InitStatus == PaymentCreated /\ taskCap = MaxTasks

(* Every operation on the payment but the status-change poll *)
NextStatus ==
    \/ StripeAdvance
    \/ GetPaymentStatus
    \/ SetFromDB
    \/ RevalidateFetch
    \/ RevalidateWrite
    \/ UpdateCache
    \/ VerifyDatabase
    \/ WebhookCache
    \/ FrontendCache
    \/ CreateCache
    \/ StripeWebhook
    \/ UpdatePaymentStatusFromFrontend
    \/ Expire

SpecStatus == InitStatus /\ [][NextStatus]_vars

(* The provider and its notifications alone *)
NextWebhook ==
    \/ StripeAdvance
    \/ StripeWebhook
    \/ WebhookCache
    \/ CreateCache
    \/ Expire

SpecWebhook == InitStatus /\ [][NextWebhook]_vars

(* Clients that query and poll while the provider moves on *)
NextPoll ==
    \/ StripeAdvance
    \/ GetPaymentStatus
    \/ SetFromDB
    \/ RevalidateFetch
    \/ RevalidateWrite
    \/ UpdateCache
    \/ VerifyDatabase
    \/ CreateCache
    \/ CheckStatusChange
    \/ ClearStatusChangeEvent
    \/ Expire

SpecPoll == InitStatus /\ [][NextPoll]_vars

(* Clients that query while the provider moves on: the query and the       *)
(* goroutines it starts are the only writers, and the database may fail a  *)
(* query's SELECT                                                          *)
NextQuery ==
    \/ StripeAdvance
    \/ GetPaymentStatus
    \/ GetPaymentStatusDbError
    \/ SetFromDB
    \/ RevalidateFetch
    \/ RevalidateWrite
    \/ UpdateCache
    \/ VerifyDatabase
    \/ CreateCache
    \/ Expire

SpecQuery == InitStatus /\ [][NextQuery]_vars

(* Queries, their goroutines and the webhook, cache and database up, with  *)
(* room for a revalidation and one more goroutine at a time                *)
InitRace == PaymentCreated /\ cacheUp /\ dbUp /\ taskCap = MaxTasks + 1

(* After the step at most MaxTasks goroutines are in flight besides the   *)
(* revalidations that have fetched and not yet written.  A query that      *)
(* would start two goroutines at once, as the one that starts the          *)
(* database verification does, is not part of this scenario.               *)
OneBesideRevalidation ==
    Cardinality({t \in tasks' : ~(t.kind = "reval" /\ t.t # None)}) <= MaxTasks

NextRace ==
    \/ StripeAdvance
    \/ GetPaymentStatus /\ OneBesideRevalidation
    \/ SetFromDB
    \/ RevalidateFetch
    \/ RevalidateWrite
    \/ UpdateCache
    \/ WebhookCache
    \/ CreateCache
    \/ StripeWebhook /\ OneBesideRevalidation

SpecRace == InitRace /\ [][NextRace]_vars

(* Queries, webhooks and their goroutines, each of which runs again and    *)
(* again as long as it can: the payment keeps being queried, goroutines    *)
(* started finish, the provider delivers what it has emitted               *)
NextConverge ==
    \/ StripeAdvance
    \/ GetPaymentStatus
    \/ SetFromDB
    \/ RevalidateFetch
    \/ RevalidateWrite
    \/ UpdateCache
    \/ VerifyDatabase
    \/ WebhookCache
    \/ CreateCache
    \/ StripeWebhook
    \/ Expire

SpecConverge ==
    /\ InitStatus
    /\ [][NextConverge]_vars
    /\ WF_vars(GetPaymentStatus)
    /\ WF_vars(SetFromDB)
    /\ WF_vars(RevalidateFetch)
    /\ WF_vars(RevalidateWrite)
    /\ WF_vars(UpdateCache)
    /\ WF_vars(VerifyDatabase)
    /\ WF_vars(WebhookCache)
    /\ WF_vars(CreateCache)
    /\ WF_vars(StripeWebhook)
    /\ WF_vars(Expire)

-----------------------------------------------------------------------------
(* The creation half: concurrent creation requests, no payment yet *)

InitCreate ==
    /\ cacheUp \in BOOLEAN
    /\ dbUp \in BOOLEAN
    /\ taskCap = MaxTasks
    /\ classified = <<>>
    /\ InfraIdle
    /\ stripeSt = None
    /\ events = {}
    /\ dbStatus = None
    /\ upiCount = 0
    /\ cPayment = Miss /\ cPaymentRef = Miss /\ cStripe = Miss
    /\ cChange = NoChange
    /\ processed = {}
    /\ tasks = {}
    /\ clearPending = 0
    /\ qResp = NoAnswer /\ wResp = NoWebhookAnswer /\ pResp = NoPollAnswer
    /\ updCount = [id \in EventIds |-> 0]
    /\ undelivered = NoTransition
    /\ changeDeliveries = 0
    /\ succIngested = FALSE
    /\ CreateIdle

NextCreate ==
    \/ CheckIdempotency
    \/ CreateStripePayment
    \/ SavePaymentHistory
    \/ CacheCreatedPayment

SpecCreate == InitCreate /\ [][NextCreate]_vars

(* After the step at most one creation request is between its dedup check  *)
(* and its answer                                                          *)
OneAtATime == Cardinality({r \in Requests : reqs'[r].pc \in {"create", "save"}}) <= 1

(* Two users who create payments one after another while payments succeed *)
(* and time passes                                                         *)
NextUser ==
    \/ NextCreate /\ OneAtATime
    \/ PaymentSucceeded
    \/ MonthPasses

SpecUser == InitCreate /\ [][NextUser]_vars

(* After the step no creation request has met a database error *)
NoFault == \A r \in Requests : ~reqs'[r].fault

(* Two users who create payments one after another, the database healthy,  *)
(* while payments succeed, the price is changed and the aggregate is       *)
(* queried                                                                 *)
NextAggregate ==
    \/ NextCreate /\ OneAtATime /\ NoFault
    \/ PaymentSucceeded
    \/ UpdatePaymentConfig
    \/ GetUserPaymentInfoHandler

SpecAggregate == InitCreate /\ [][NextAggregate]_vars

(* The status classifier applied to status strings *)
NextClassify == ClassifyStatus

SpecClassify == InitCreate /\ [][NextClassify]_vars

(* Concurrent rate-limit checks of one key while time passes *)
NextLimit ==
    \/ CheckRateLimitRedisCount
    \/ CheckRateLimitRedisAdd
    \/ RateLimitMiddlewareMemory
    \/ CheckRateLimitMemoryLock
    \/ CheckRateLimitMemoryStore
    \/ Tick

(* The limiter does not use the database *)
InitLimit == InitCreate /\ dbUp

SpecLimit == InitLimit /\ [][NextLimit]_vars

(* Requests to an administrator endpoint under any key configuration *)
NextAuth ==
    \/ InitAuth
    \/ AdminAuthMiddleware

SpecAuth == InitCreate /\ [][NextAuth]_vars

(* The shutdown signal and what follows it; every goroutine started keeps  *)
(* being scheduled and the clock keeps running                             *)
NextShutdown ==
    \/ ReceiveSignal
    \/ GracefulShutdownRun
    \/ StartShutdownFunc
    \/ RunShutdownFunc
    \/ CloseDone
    \/ SelectShutdown
    \/ ShutdownTick

SpecShutdown ==
    /\ InitCreate
    /\ [][NextShutdown]_vars
    /\ WF_vars(GracefulShutdownRun)
    /\ WF_vars(StartShutdownFunc)
    /\ WF_vars(RunShutdownFunc)
    /\ WF_vars(CloseDone)
    /\ WF_vars(SelectShutdown)
    /\ WF_vars(ShutdownTick)

-----------------------------------------------------------------------------
(* Properties of the creation half *)

RequestAnswered(r) == reqs[r].pc \in {"cache", "done"}

(* C2: the answered requests that carry one idempotency key, the provider  *)
(* being reachable for each, all hold the same PaymentIntent id, and at    *)
(* most one row carries the key.                                           *)
C2_SameKeySameReference ==
    /\ \A r1 \in Requests, r2 \in Requests :
          (/\ RequestAnswered(r1) /\ RequestAnswered(r2)
           /\ reqs[r1].key # "" /\ reqs[r1].key = reqs[r2].key
           /\ reqs[r1].err # "unavailable" /\ reqs[r2].err # "unavailable")
              => (reqs[r1].ref # 0 /\ reqs[r1].ref = reqs[r2].ref)
    /\ \A k \in Keys \ {""} : Cardinality({row \in rows : row.key = k}) <= 1

-----------------------------------------------------------------------------
(* Properties of the status half *)

Answered == qResp # NoAnswer

(* C1: while the database row holds a Final status, a status query never   *)
(* answers with a different Final status (the query does not write the     *)
(* row, so the row it leaves is the row it found).                         *)
C1_FinalStatusAuthority ==
    (Answered /\ HasRow /\ IsFinalStatus(dbStatus) /\ IsFinalStatus(qResp.status))
        => qResp.status = dbStatus

(* C4: no step replaces a Final status of the database row by an           *)
(* Intermediate one.                                                       *)
C4_FinalNeverDowngraded ==
    [][(HasRow /\ IsFinalStatus(dbStatus)) => ~IsIntermediateStatus(dbStatus')]_vars

(* C5: over all deliveries of one event id the webhook applies the event's *)
(* database update at most once.                                           *)
C5_EventProcessedOnce == \A id \in EventIds : updCount[id] <= 1

(* C7: when the webhook has acknowledged a succeeded / failed / canceled   *)
(* notification as processed, the database row carries the notification's  *)
(* status.                                                                 *)
C7_AckedNotificationStored ==
    (wResp.ack = "ok" /\ wResp.type \in RecognisedTypes) => dbStatus = wResp.status

(* C8: a notification with a missing or invalid signature is rejected and  *)
(* leaves the database row, the per-user counter, every cache entry, the   *)
(* processed event ids and the goroutines untouched.                       *)
C8_BadSignatureRejected ==
    [][wResp'.sig \in {"missing", "invalid"}
          => (wResp'.ack = "rejected" /\ UNCHANGED <<dbVars, cacheVars, tasks>>)]_vars

(* A forged notification was rejected after genuine ones were processed *)
C8_Witness ==
    /\ wResp.sig = "invalid" /\ wResp.ack = "rejected" /\ wResp.id = ForgedEvent.id
    /\ processed # {} /\ HasRow /\ dbStatus # "succeeded"

(* C9: once a "succeeded" notification has been processed and the row is   *)
(* "succeeded", a status query, by either key, answers "succeeded" from    *)
(* the database without a provider call.                                   *)
C9_SucceededServedFromDatabase ==
    (Answered /\ succIngested /\ HasRow /\ dbStatus = "succeeded")
        => (qResp.source = "database" /\ qResp.status = "succeeded" /\ qResp.calls = 0)

(* C10: when the stripe_status entry holds a Final status and the row      *)
(* holds the same status, a status query answers from the database without *)
(* a provider call.                                                        *)
C10_FinalCacheChecksDatabase ==
    (Answered /\ cacheUp /\ IsFinalStatus(cStripe.status) /\ HasRow
        /\ dbStatus = cStripe.status)
        => (qResp.source = "database" /\ qResp.calls = 0)

(* C6: a poll reports the recorded transition that no poll has reported    *)
(* yet, with its old and new status, and a recorded transition is reported *)
(* by at most one poll.                                                    *)
C6_OneShotDelivery ==
    /\ (pResp.polled /\ pResp.pend # NoTransition)
          => (pResp.changed /\ pResp.old = pResp.pend.old /\ pResp.new = pResp.pend.new)
    /\ changeDeliveries <= 1

-----------------------------------------------------------------------------
(* Properties of the status query *)

(* The query went past step 1 (no payment snapshot was cached under the    *)
(* queried id; a query writes no cache entry itself) and its SELECT in     *)
(* step 2 returned without error                                           *)
ReadDatabase == ~SnapshotCached(qResp.key) /\ ~qResp.dbErr

WriteThroughDone(t) == t.kind = "updCache" /\ t \in tasks /\ t \notin tasks'

(* C12: when a status query's own provider call succeeds and observes a    *)
(* status other than the row's, the query leaves the row at the observed   *)
(* status and a status-change event with that new status recorded: by the  *)
(* end of its write-through goroutine, or, without a cache, of the handler *)
(* (then the row only).                                                    *)
C12_QueryCallWritesBack ==
    [][/\ \A t \in tasks :
            (WriteThroughDone(t) /\ HasRow /\ t.s # dbStatus)
                => (dbStatus' = t.s /\ cChange'.new = t.s)
       /\ (~cacheUp /\ HasRow /\ qResp'.source = "database+stripe"
              /\ qResp'.status # dbStatus)
                => dbStatus' = qResp'.status]_vars

(* The revalidation goroutine that cached status t.s started, having       *)
(* fetched live status t.t, finishes in this step                          *)
RevalidationDone(t) ==
    t.kind = "reval" /\ t.t # None /\ t \in tasks /\ t \notin tasks'

(* C13: a revalidation that observed a live status other than the cached   *)
(* one, for a payment with a database row, records the change (old: the    *)
(* cached status, new: the live one), sets the row to the live status and  *)
(* rewrites the payment snapshot and the stripe_status entry with it.      *)
C13_RevalidationWritesAll ==
    [][\A t \in tasks :
          (RevalidationDone(t) /\ t.t # t.s /\ HasRow)
              => /\ cChange'.old = t.s /\ cChange'.new = t.t
                 /\ dbStatus' = t.t
                 /\ cStripe'.status = t.t
                 /\ cPayment'.status = t.t]_vars

(* The stripe_status entry holds an Intermediate status and the queried id  *)
(* names the payment                                                       *)
CachedIntermediate ==
    /\ Answered /\ cacheUp /\ IsIntermediateStatus(cStripe.status)
    /\ qResp.source # "not_found"

(* The query read the database and found a Final status in the row *)
FoundFinalRow == ReadDatabase /\ HasRow /\ IsFinalStatus(dbStatus)

(* C15, as stated: with an Intermediate status in the stripe_status entry  *)
(* the query answers the cached status with source "cache", cached = true, *)
(* and no synchronous provider call.                                       *)
C15_CachedIntermediateServed ==
    CachedIntermediate
        => (qResp.status = cStripe.status /\ qResp.source = "cache" /\ qResp.cached
            /\ qResp.calls = 0)

(* C15, amended: with an Intermediate status in the stripe_status entry    *)
(* the query makes no synchronous provider call; unless it found a Final   *)
(* status in the database row (which it then answers), it answers the      *)
(* cached status with cached = true and source "cache" (payment snapshot   *)
(* cached under the queried id) or "database+cache" (otherwise), and has   *)
(* started the goroutine that will call the provider.                      *)
C15_CachedIntermediateNoSyncCall ==
    CachedIntermediate
        => /\ qResp.calls = 0
           /\ FoundFinalRow => (qResp.status = dbStatus /\ qResp.source = "database")
           /\ ~FoundFinalRow
                => /\ qResp.status = cStripe.status /\ qResp.cached
                   /\ qResp.source = IF SnapshotCached(qResp.key) THEN "cache"
                                     ELSE "database+cache"
                   /\ \E t \in tasks :
                         t.kind = "reval" /\ t.s = cStripe.status /\ t.t = None

(* The cached Intermediate status is stale (the provider has moved on) and *)
(* the query, having read a row that is not Final, answered it             *)
C15_Witness ==
    /\ CachedIntermediate /\ ~FoundFinalRow /\ ReadDatabase /\ HasRow
    /\ stripeSt # cStripe.status
    /\ qResp.status = cStripe.status /\ qResp.source = "database+cache"

(* No entry for the payment in the cache, "processing" in its row; the     *)
(* query that reads the row is one whose SELECT returns without error      *)
UncachedProcessing ==
    /\ ~Hit(cPayment) /\ ~Hit(cPaymentRef) /\ ~Hit(cStripe)
    /\ HasRow /\ dbStatus = "processing"

(* C16, as stated: a query that finds no cache entry and "processing" in   *)
(* the row answers "processing" with source "database", calls no provider  *)
(* before answering and starts a goroutine that calls it.                  *)
C16_ProcessingServedFromDatabase ==
    [][(UncachedProcessing /\ qResp' # NoAnswer /\ ~qResp'.dbErr)
          => /\ qResp'.source = "database" /\ qResp'.status = "processing"
             /\ qResp'.calls = 0
             /\ \E t \in tasks' \ tasks : t.kind = "reval"]_vars

(* C16, amended: a query that finds no cache entry and "processing" in the *)
(* row calls the provider once before answering: it answers the live       *)
(* status with source "database+stripe" when the call succeeds and         *)
(* "processing" with source "database" when it fails, never from the       *)
(* cache, and starts no goroutine that calls the provider.                 *)
C16_ProcessingCallsProvider ==
    [][(UncachedProcessing /\ qResp' # NoAnswer /\ ~qResp'.dbErr)
          => /\ qResp'.calls = 1 /\ ~qResp'.cached
             /\ \/ qResp'.source = "database+stripe" /\ qResp'.status = stripeSt
                \/ qResp'.source = "database" /\ qResp'.status = "processing"
             /\ \A t \in tasks' \ tasks : t.kind # "reval"]_vars

(* The row says "processing", nothing is cached, the provider has already  *)
(* confirmed the payment, and the query answered the provider's status     *)
C16_Witness ==
    /\ Answered /\ UncachedProcessing /\ stripeSt = "succeeded"
    /\ qResp.source = "database+stripe" /\ qResp.status = "succeeded"
    /\ qResp.calls = 1

(* The handler called the provider and the answer is not the provider's *)
ProviderCallFailed ==
    Answered /\ qResp.calls = 1 /\ qResp.source \notin {"stripe", "database+stripe"}

(* The statuses the service can read for the payment: the row's, unless    *)
(* the query's SELECT failed, and those of the payment's cache entries     *)
KnownStatuses ==
    (IF HasRow /\ ~qResp.dbErr THEN {dbStatus} ELSE {})
        \cup (IF cacheUp
              THEN {e.status : e \in {c \in {cPayment, cPaymentRef, cStripe} : Hit(c)}}
              ELSE {})

(* C17: when the handler's provider call fails and the database row or a   *)
(* cache entry of the payment holds a status, the query answers one of     *)
(* those statuses, with the local source ("cache" or "database") named.    *)
C17_ProviderFailureDegrades ==
    (ProviderCallFailed /\ KnownStatuses # {})
        => (qResp.status \in KnownStatuses /\ qResp.source \in {"cache", "database"})

(* The stripe_status entry holds a Final status and the row another Final  *)
(* status                                                                  *)
FinalDisagreement ==
    /\ cacheUp /\ Hit(cStripe) /\ IsFinalStatus(cStripe.status)
    /\ HasRow /\ IsFinalStatus(dbStatus) /\ dbStatus # cStripe.status

(* A goroutine that sets the stripe_status entry from the row: the         *)
(* database check of step 3.1, or step 2's refresh for a Final row         *)
CorrectsFromRow(t) ==
    t.kind = "verifyDB" \/ (t.kind = "setFromDB" /\ IsFinalStatus(t.s))

(* C18: a query that runs while the stripe_status entry and the row hold   *)
(* different Final statuses starts a goroutine that sets the entry         *)
(* from the row; that goroutine, finishing while they still differ, leaves *)
(* the entry at the row's status and the row as it was.                    *)
C18_DatabaseWinsFinalDisagreement ==
    [][/\ (FinalDisagreement /\ qResp' # NoAnswer)
            => \E t \in tasks' \ tasks : CorrectsFromRow(t)
       /\ \A t \in tasks :
            (FinalDisagreement /\ CorrectsFromRow(t) /\ t \notin tasks')
                => (cStripe'.status = dbStatus /\ dbStatus' = dbStatus)]_vars

-----------------------------------------------------------------------------
(* Properties of the cache entries *)

C20_WritesFollowTTLPolicy ==
    \A e \in {cPayment, cPaymentRef, cStripe} :
        Hit(e) => /\ e.ttl = GetStripeStatusTTL(e.status)
                  /\ e.ttl > 0
                  /\ e.ttl < (IF IsIntermediateStatus(e.status) THEN 10 ELSE 60)

-----------------------------------------------------------------------------
(* Properties of the webhook's status-change event *)

(* The webhook's cache goroutine for notified status t.s finishes in this  *)
(* step                                                                    *)
WebhookCacheDone(t) == t.kind = "whCache" /\ t \in tasks /\ t \notin tasks'

(* C14: a notification that sets the row to a status it did not hold has   *)
(* its status-change event recorded by the handler or left to the          *)
(* handler's goroutine, and the goroutine, when the payment snapshot holds *)
(* another status than the notified one, leaves the event recorded, for    *)
(* the next poll to report.                                                *)
C14_WebhookEmitsChange ==
    [][/\ (wResp'.ack = "ok" /\ cacheUp /\ HasRow /\ dbStatus' # dbStatus)
            => \/ cChange'.new = dbStatus'
               \/ \E t \in tasks' \ tasks : t.kind = "whCache"
       /\ \A t \in tasks :
            (WebhookCacheDone(t) /\ Hit(cPayment) /\ cPayment.status # t.s)
                => cChange'.new = t.s]_vars

-----------------------------------------------------------------------------
(* Properties of payment creation *)

(* Request r was answered with the payment id it generated and the         *)
(* PaymentIntent it created                                                *)
AnsweredNew(r) ==
    /\ RequestAnswered(r) /\ reqs[r].err = None
    /\ reqs[r].intent # 0 /\ reqs[r].pid = r /\ reqs[r].ref = reqs[r].intent

(* C21: with a database, a creation request that was answered with the     *)
(* payment id it generated and the PaymentIntent it created, none of its   *)
(* statements having met a database error, has a row with that payment id  *)
(* and that PaymentIntent id in payment_history.                           *)
C21_NewPaymentPersisted ==
    \A r \in Requests :
        (dbUp /\ AnsweredNew(r) /\ ~reqs[r].fault)
            => \E row \in rows : row.pid = r /\ row.pi = reqs[r].intent

(* Request r leaves the dedup check in this step *)
DedupChecked(r) == reqs[r].pc = "idle" /\ reqs'[r].pc # "idle"

(* C22: a creation request whose Idempotency-Key is carried by a row of    *)
(* payment_history, the lookup of the key returning without error, is      *)
(* answered at once with that row's payment id and PaymentIntent id; it    *)
(* creates no PaymentIntent and no row.                                    *)
C22_PresentKeyAnswersExisting ==
    [][\A r \in Requests :
          (/\ DedupChecked(r) /\ dbUp /\ ~reqs'[r].fault
           /\ \E row \in rows : row.key # "" /\ row.key = reqs'[r].key)
              => /\ reqs'[r].pc = "done" /\ reqs'[r].err = None
                 /\ \E row \in rows : /\ row.key = reqs'[r].key
                                      /\ reqs'[r].pid = row.pid
                                      /\ reqs'[r].ref = row.pi
                 /\ reqs'[r].intent = 0
                 /\ intents' = intents /\ rows' = rows]_vars

(* A request with key k1 was answered with the ids of the row another      *)
(* request had saved under k1, having created no PaymentIntent             *)
C22_Witness ==
    \E r \in Requests :
        /\ reqs[r].pc = "done" /\ reqs[r].key = "k1" /\ reqs[r].err = None
        /\ reqs[r].intent = 0 /\ reqs[r].pid \notin {0, r}
        /\ \E row \in rows :
              row.key = "k1" /\ row.pid = reqs[r].pid /\ row.pi = reqs[r].ref

(* Request r leaves SavePaymentWithMetadata in this step *)
SaveDone(r) == reqs[r].pc = "save" /\ reqs'[r].pc # "save"

(* C23: when the INSERT of a new payment meets the unique index on         *)
(* idempotency_key (and the re-read and the provider lookup that follow    *)
(* meet no error), the request is answered without an error and with the   *)
(* payment id and PaymentIntent id of the row stored under its key.        *)
C23_DuplicateKeyResolvedByReread ==
    [][\A r \in Requests :
          (/\ SaveDone(r) /\ DuplicateIdempotencyKey(reqs[r].key)
           /\ ~reqs'[r].fault)
              => /\ reqs'[r].err = None
                 /\ \E row \in rows : /\ row.key = reqs[r].key
                                      /\ reqs'[r].pid = row.pid
                                      /\ reqs'[r].ref = row.pi]_vars

(* Request r leaves the validity check in this step *)
ValidityChecked(r) == reqs[r].pc = "create" /\ reqs'[r].pc # "create"

(* The user's latest succeeded payment was created within the last 30 days *)
PaidWithinWindow(user) ==
    \E row \in rows : row.user = user /\ row.status = "succeeded" /\ ~row.old

(* C24: a creation request that has passed the dedup check, for a user     *)
(* whose latest succeeded payment was created within the last 30 days (the *)
(* aggregate query returning without error), is answered already_paid and  *)
(* creates no PaymentIntent and no row.                                    *)
C24_PaidUserShortCircuits ==
    [][\A r \in Requests :
          (/\ ValidityChecked(r) /\ dbUp /\ ~reqs'[r].fault
           /\ PaidWithinWindow(UserOf(r)))
              => /\ reqs'[r].pc = "done" /\ reqs'[r].err = "already_paid"
                 /\ reqs'[r].intent = 0 /\ reqs'[r].pid = 0 /\ reqs'[r].ref = 0
                 /\ intents' = intents /\ rows' = rows]_vars

(* A request of a user with a recent succeeded payment was answered        *)
(* already_paid and created nothing, while the other user has an unpaid    *)
(* payment                                                                 *)
C24_Witness ==
    \E r \in Requests :
        /\ reqs[r].pc = "done" /\ reqs[r].err = "already_paid" /\ reqs[r].intent = 0
        /\ PaidWithinWindow(UserOf(r))
        /\ \E row \in rows : row.user # UserOf(r) /\ row.status # "succeeded"

-----------------------------------------------------------------------------
(* Properties of the per-user aggregate *)

(* The succeeded rows of a user that carry amount a *)
PaidAt(user, a) ==
    {row \in rows : row.user = user /\ row.status = "succeeded" /\ row.amount = a}

(* C25: an aggregate query that the database answers returns, for the user *)
(* asked about, the number of that user's rows with status "succeeded" as  *)
(* total_payment_count, the sum of their amounts as total_payment_amount,  *)
(* and has_paid exactly when that number is positive.                      *)
C25_AggregateFromSucceededRows ==
    uResp.user # None
        => LET n1 == Cardinality(PaidAt(uResp.user, DefaultAmount))
               n2 == Cardinality(PaidAt(uResp.user, OtherAmount))
           IN  /\ uResp.total_payment_count = n1 + n2
               /\ uResp.total_payment_amount = n1 * DefaultAmount + n2 * OtherAmount
               /\ uResp.has_paid = (n1 + n2 > 0)

(* The aggregate of a user with two succeeded payments of different        *)
(* amounts, after the provider has also confirmed a payment of the other   *)
(* user                                                                    *)
C25_Witness ==
    /\ uResp.user = "u1" /\ uResp.has_paid /\ uResp.total_payment_count = 2
    /\ uResp.total_payment_amount = DefaultAmount + OtherAmount
    /\ \E i \in intents : i.user = "u2" /\ i.paid

(* C26: no step adds to the stored per-user success counter                *)
(* (user_payment_info.total_payment_count): the aggregate exists only as   *)
(* the result of the query over the rows.                                  *)
C26_NoStoredCounterMutation == [][upiCount' = upiCount]_vars

-----------------------------------------------------------------------------
(* Properties of the service without a cache *)

(* A status query answered without a cache: from the database or the       *)
(* provider, with the row's status or the live one                         *)
AnsweredWithoutCache ==
    /\ ~qResp.cached
    /\ qResp.source \in {"database", "database+stripe", "not_found"}
    /\ qResp.source = "database+stripe" => qResp.status = stripeSt
    /\ (qResp.source = "database" /\ HasRow) => qResp.status = dbStatus
    /\ HasRow => qResp.source # "not_found"

(* C27: without a cache a status query, its SELECT returning without       *)
(* error, answers from the database or the provider, and the webhook keeps *)
(* the guarantee it gives with a cache: the database update of an event id *)
(* is applied at most once over all its deliveries.                        *)
C27_WorksWithoutCache ==
    ~cacheUp => /\ (Answered /\ ~qResp.dbErr) => AnsweredWithoutCache
                /\ \A id \in EventIds : updCount[id] <= 1

(* C28: a read of the cache made while the cache is unavailable returns to *)
(* its caller a result other than the one a miss returns, for the payment  *)
(* snapshot and for the status-change event.                               *)
C28_UnavailableDistinctFromMiss ==
    ~cacheUp => /\ GetPayment(cacheUp, cPayment) # GetPayment(TRUE, Miss)
                /\ GetStatusChangeEvent(cacheUp, cChange)
                      # GetStatusChangeEvent(TRUE, NoChange)

-----------------------------------------------------------------------------
(* Properties of the webhook's default branch *)

(* The event types of the provider for which the switch has no case *)
UnhandledTypes == {"payment_intent.processing", "payment_intent.amount_capturable_updated"}

(* C29: a validly signed notification of an event type the switch has no   *)
(* case for is acknowledged with success and leaves the row's status, the  *)
(* per-user counter, the cached snapshots, the stripe_status entry, the    *)
(* status-change event and the goroutines as they were.                    *)
C29_UnknownTypeAcknowledgedUntouched ==
    [][(wResp'.sig = "valid" /\ wResp'.type \in UnhandledTypes)
          => /\ wResp'.ack \in {"ok", "duplicate"}
             /\ UNCHANGED <<dbStatus, upiCount, cPayment, cPaymentRef, cStripe, cChange,
                            tasks>>]_vars

(* A payment_intent.processing notification was acknowledged as processed  *)
(* while the row, with a database and a cache present, keeps another       *)
(* status                                                                  *)
C29_Witness ==
    /\ wResp.sig = "valid" /\ wResp.type = "payment_intent.processing"
    /\ wResp.ack = "ok" /\ cacheUp /\ HasRow /\ dbStatus # wResp.status
    /\ stripeSt = "processing"

-----------------------------------------------------------------------------
(* Properties of the status classifier *)

(* C30: every status string classified is Final, Intermediate or neither   *)
(* (Unknown) and never both; succeeded, failed, canceled and               *)
(* requires_capture are Final; requires_payment_method,                    *)
(* requires_confirmation, requires_action and processing are Intermediate; *)
(* every other string is neither.                                          *)
C30_ClassifierPartition ==
    \A i \in 1 .. Len(classified) :
        LET c == classified[i]
            f == c.status \in {"succeeded", "failed", "canceled", "requires_capture"}
            n == c.status \in {"requires_payment_method", "requires_confirmation",
                               "requires_action", "processing"}
        IN  /\ ~(c.final /\ c.intermediate)
            /\ c.final = f
            /\ c.intermediate = n

(* A Final status and a string outside the vocabulary have been classified *)
C30_Witness ==
    /\ Len(classified) = 2
    /\ classified[1].status = "requires_capture" /\ classified[1].final
    /\ classified[2].status = "Succeeded"
    /\ ~classified[2].final /\ ~classified[2].intermediate

-----------------------------------------------------------------------------
(* Properties of the rate limiter *)

(* The requests the stores let through with a time in the window that     *)
(* ends at T                                                               *)
RECURSIVE Admitted(_, _)
Admitted(stores, T) ==
    IF stores = {} THEN 0
    ELSE LET store == CHOOSE s \in stores : TRUE
         IN  SumOver(admitted[store], {t \in Ticks : T - RateWindow < t /\ t <= T})
             + Admitted(stores \ {store}, T)

(* C31: the in-process store lets through at most RateLimit requests of    *)
(* the key in any window of RateWindow ticks, however the concurrent       *)
(* checks interleave.                                                      *)
C31_MemoryStoreWithinLimit ==
    \A T \in Ticks : Admitted({"memory"}, T) <= RateLimit

(* The store has let RateLimit requests through in one window and refused  *)
(* a concurrent one                                                        *)
C31_Witness ==
    /\ \E T \in Ticks : Admitted({"memory"}, T) = RateLimit
    /\ \E p \in Checkers : checks[p].res = "exceeded"
    /\ \E p \in Checkers : checks[p].pc \in {"memory", "locked"}

(* C37: with Redis available the sliding-window check lets through at     *)
(* most RateLimit requests of the key in any window of RateWindow ticks,   *)
(* also when checks of the key run concurrently.                           *)
C37_RedisLimiterWithinLimit ==
    cacheUp => \A T \in Ticks : Admitted({"redis"}, T) <= RateLimit

-----------------------------------------------------------------------------
(* Properties of the administrator authentication *)

(* C32: a request to an endpoint behind AdminAuthMiddleware that carries   *)
(* an ordinary API key, one that is not an administrator key, is refused   *)
(* with 403.                                                               *)
C32_OrdinaryKeyRefused ==
    (aResp.apiKey \in apiKeyCache /\ aResp.apiKey \notin adminKeyCache) => aResp.code = 403

-----------------------------------------------------------------------------
(* Properties of the stored status under concurrent writers *)

(* C33, for the Final statuses the provider never leaves: once the         *)
(* database row holds succeeded, failed or canceled, no step changes it to *)
(* a different Final status.                                               *)
C33_FinalNeverReplacedByFinal ==
    [][(HasRow /\ dbStatus \in {"succeeded", "failed", "canceled"} /\ IsFinalStatus(dbStatus'))
          => dbStatus' = dbStatus]_vars

-----------------------------------------------------------------------------
(* Convergence of the stored status *)

(* The provider rests at a Final status it never leaves, the webhook has   *)
(* applied every event the provider emitted, no goroutine is in flight     *)
Settled ==
    /\ dbUp
    /\ stripeSt \in {"succeeded", "canceled"}
    /\ \A e \in events : updCount[e.id] >= 1
    /\ tasks = {}

(* C34: once the provider rests at a Final status and the notifications    *)
(* and goroutines are done, while the payment keeps being queried, the     *)
(* database row comes to hold that status.                                 *)
C34_ConvergesToProviderStatus == Settled ~> (dbStatus = stripeSt)

-----------------------------------------------------------------------------
(* Properties of the query without any fallback status *)

(* C36: when the handler's provider call fails and neither the database    *)
(* row nor a cache entry of the payment holds a status, the query answers  *)
(* with an error, never with a success that carries no status.             *)
C36_NoFallbackSurfacesError ==
    (ProviderCallFailed /\ KnownStatuses = {}) => qResp.source = "not_found"

-----------------------------------------------------------------------------
(* Properties of creation requests without an idempotency key *)

(* The requests without an Idempotency-Key that were answered with a new   *)
(* payment, none of their statements having met a database error           *)
KeylessCreated == {r \in Requests : reqs[r].key = "" /\ AnsweredNew(r) /\ ~reqs[r].fault}

(* C35: the uniqueness of the idempotency key does not apply to requests   *)
(* without a key: with a database, every such request answered with a new  *)
(* payment has its own row, however many there are.                        *)
C35_KeylessNeverCollide ==
    dbUp => Cardinality({row \in rows : row.key = ""}) >= Cardinality(KeylessCreated)

-----------------------------------------------------------------------------
(* Properties of the graceful shutdown *)

====
